---- MODULE Spec2Model ----
(***************************************************************************)
(* app-context: a module registry that initializes registered modules and  *)
(* wires their dependencies.  The repository holds two revisions of the    *)
(* orchestrator, src/lib/context.js and src/unnamed/part_003; the variable *)
(* impl says which of the two a behaviour runs.  The JavaScript run-time   *)
(* is modelled as a FIFO microtask queue (promise reactions), timers that  *)
(* fire only when that queue is empty, and host calls.                     *)
(***************************************************************************)
EXTENDS Integers, Sequences, FiniteSets, TLC

\* ------------------------------------------------------------------ bounds
Names == {"A", "B", "C"}       \* module names a declaration may carry
Ghost == "ghost"               \* a name no declaration carries
AllNames == Names \cup {Ghost}
Root == "[root]"
VertexNames == Names \cup {Root}

MaxRecs == 3                   \* register() calls in one behaviour
MaxStarts == 2                 \* start() calls in one behaviour
MaxHostCalls == 1              \* dependency() calls made by the host
MaxEdges == 5                  \* edges of a graph built in isolation
MaxHostOps == 4                \* host calls of any kind in one behaviour
MaxSubs == 3                   \* on() and once() calls made by the host
MaxEmits == 2                  \* emit() calls made by the host
MaxReemits == 1                \* host handlers that emit from inside
MaxOffs == 1                   \* unsubscribe calls made by the host
MaxObservers == 2              \* handlers the host subscribes to completions
MaxObservedRecs == 2           \* register() calls in an observed behaviour
MaxCloses == 1                 \* close() calls made by the host

Impls == {"context", "part_003"}

\* createNsEmitter(separator = ":"): the separators an emitter is made with
Colon == ":"
Separators == {Colon, "/"}

VARIABLES
  impl,       \* which revision of the orchestrator runs
  separator,  \* the namespace separator the emitter was created with
  started,    \* let started
  recs,       \* every ModuleInfo object ever created, by identity (index)
  modules,    \* const modules = new Map(): name -> ModuleInfo identity, 0 = absent
  order,      \* insertion order of the keys of modules
  graph,      \* depGraph: vertex name -> [present, edges (targets in insertion order)]
  listeners,  \* emitter: event key -> listeners in subscription order
  calls,      \* every dependency() call: its names, its handler's invocations
  starts,     \* every start() call: its modInfos snapshot and its promise
  procs,      \* every invocation of a module's initialize, in invocation order
  mq,         \* the microtask queue
  draining,   \* the event loop is running microtasks (no host code runs)
  completed,  \* the initialize invocations in the order their completion ran
  subs,       \* every on()/once() call of the host: key, kind, its handler
  fired,      \* the once wrappers that have fired (their `fired` flag)
  log         \* what the host did and saw: its emits, its handlers' calls

vars == <<impl, separator, started, recs, modules, order, graph, listeners, calls, starts,
          procs, mq, draining, completed, subs, fired, log>>

\* ------------------------------------------------------------------ values
NoErr == [kind |-> "none", name |-> "", path |-> <<>>]
UnregisteredErr(n) == [kind |-> "unregistered", name |-> n, path |-> <<>>]
VertexErr(n) == [kind |-> "vertex", name |-> n, path |-> <<>>]
CycleErr(p) == [kind |-> "cycle", name |-> "", path |-> p]
InitErr(n) == [kind |-> "init", name |-> n, path |-> <<>>]
IllegalErr == [kind |-> "illegal", name |-> "", path |-> <<>>]

Range(s) == {s[i] : i \in 1..Len(s)}

\* The lists of names a dependency() call may carry: every single name, and
\* the pairs with two pending names, a repeated name and an unregistered one.
DepLists == {<<n>> : n \in AllNames} \cup
            {<<"B", "C">>, <<"B", "B">>, <<"B", Ghost>>}

\* Event keys: <<namespace, event>> is `${namespace}${separator}${event}` and
\* <<ns, "">> is the namespace-wide key `${ns}${separator}`.
ModuleKey(n) == <<"module", n>>
InitModuleKey == <<"context", "init-module">>
Keys == {ModuleKey(n) : n \in AllNames} \cup
        {<<"module", "">>, InitModuleKey, <<"context", "">>}

\* ------------------------------------------------------------------ dgraph
NoVertex == [present |-> FALSE, edges |-> <<>>]

\* addV(v): vertices.set(v, createVertex(v)), a fresh vertex without edges.
AddV(g, v) == [g EXCEPT ![v] = [present |-> TRUE, edges |-> <<>>]]

\* A containsEdge that never finds the edge; C22 has to tell it from
\* containsEdge.
ContainsEdgeNever(g, s, t) == FALSE

\* containsEdge(v, edge)
ContainsEdge(g, s, t) == t \in Range(g[s].edges)

\* An addE that looks up the source only; C21 has to tell it from addE.
AddETargetUnchecked(g, s, t) ==
  IF ~g[s].present THEN [g |-> g, err |-> VertexErr(s)]
  ELSE IF ContainsEdge(g, s, t) THEN [g |-> g, err |-> NoErr]
  ELSE [g |-> [g EXCEPT ![s].edges = Append(@, t)], err |-> NoErr]

\* addE(s, t): [g, err]
AddE(g, s, t) ==
  IF ~g[s].present THEN [g |-> g, err |-> VertexErr(s)]
  ELSE IF t \notin VertexNames \/ ~g[t].present THEN [g |-> g, err |-> VertexErr(t)]
  ELSE IF ContainsEdge(g, s, t) THEN [g |-> g, err |-> NoErr]
  ELSE [g |-> [g EXCEPT ![s].edges = Append(@, t)], err |-> NoErr]

\* ------------------------------------------------------------------ traverse
RECURSIVE Traverse(_, _, _, _)
RECURSIVE TraverseEdges(_, _, _, _, _)

\* A traversal that goes on after it has found a cycle and records the
\* last one it finds; C34 has to tell it from traverse.
TraverseLastWins(g, vName, path, cyclic) ==
  IF vName \notin VertexNames \/ ~g[vName].present THEN cyclic
  ELSE IF vName \in Range(path) THEN Append(path, vName)
  ELSE TraverseEdges(g, g[vName].edges, 1, Append(path, vName), cyclic)

\* traverse(vName, ctx): the value of ctx.cyclic afterwards (<<>> is null);
\* path is pushed and popped around the loop over the edges.
Traverse(g, vName, path, cyclic) ==
  IF vName \notin VertexNames \/ ~g[vName].present THEN cyclic
  ELSE IF cyclic # <<>> THEN cyclic
  ELSE IF vName \in Range(path) THEN Append(path, vName)
  ELSE TraverseEdges(g, g[vName].edges, 1, Append(path, vName), cyclic)

\* A loop that follows only the first edge of a vertex; C20 has to tell it
\* from the loop of traverse.
TraverseFirstEdgeOnly(g, edges, i, path, cyclic) ==
  IF i > 1 \/ edges = <<>> THEN cyclic ELSE Traverse(g, edges[1], path, cyclic)

TraverseEdges(g, edges, i, path, cyclic) ==
  IF i > Len(edges) THEN cyclic
  ELSE TraverseEdges(g, edges, i + 1, path, Traverse(g, edges[i], path, cyclic))

\* checkCyclicDependencies(): the cycle found from the root, <<>> if none.
CheckCyclic(g) == Traverse(g, Root, <<>>, <<>>)

\* ------------------------------------------------------------------ state
\* The orchestrator's state as one value, so that a handler that calls other
\* handlers (register -> initializeModule -> initialize -> dependency ->
\* resolveDeps -> handler) is one step.
Cur == [started |-> started, recs |-> recs, modules |-> modules, order |-> order,
        graph |-> graph, listeners |-> listeners, calls |-> calls,
        starts |-> starts, procs |-> procs, mq |-> mq, completed |-> completed,
        subs |-> subs, fired |-> fired, log |-> log, self |-> <<>>]

Becomes(s) ==
  \E t \in {s} :
    /\ started' = t.started
    /\ recs' = t.recs
    /\ modules' = t.modules
    /\ order' = t.order
    /\ graph' = t.graph
    /\ listeners' = t.listeners
    /\ calls' = t.calls
    /\ starts' = t.starts
    /\ procs' = t.procs
    /\ mq' = t.mq
    /\ completed' = t.completed
    /\ subs' = t.subs
    /\ fired' = t.fired
    /\ log' = t.log
    /\ impl' = impl
    /\ separator' = separator

Task(type, id) == [type |-> type, id |-> id]

\* modules.get(n) && modules.get(n).initialized
IsInitialized(s, n) == s.modules[n] # 0 /\ s.recs[s.modules[n]].initialized

\* ------------------------------------------------------------------ resolver
\* A collector that puts each instance in front of the ones before it; C6
\* has to tell it from getInitializedModules.
GetInitializedModulesPrepending(s, names) ==
  LET f[i \in 0..Len(names)] ==
        IF i = 0 THEN <<>>
        ELSE IF IsInitialized(s, names[i])
             THEN <<s.recs[s.modules[names[i]]].module>> \o f[i - 1]
             ELSE f[i - 1]
  IN f[Len(names)]

\* getInitializedModules(names): the instances of the initialized ones, in
\* the order of names; the others are skipped.
GetInitializedModules(s, names) ==
  LET f[i \in 0..Len(names)] ==
        IF i = 0 THEN <<>>
        ELSE IF IsInitialized(s, names[i])
             THEN Append(f[i - 1], s.recs[s.modules[names[i]]].module)
             ELSE f[i - 1]
  IN f[Len(names)]

\* handler(...depMods) of call c.  The initialize that awaits the call goes
\* on and returns its instance: its completion is queued as a microtask.
InvokeHandler(s, c, vals) ==
  LET p == s.calls[c].owner
      s1 == [s EXCEPT !.calls[c].invoked = @ + 1,
                      !.calls[c].delivered = Append(@, vals)]
  IN IF s.calls[c].form = "promise" /\ s.calls[c].invoked >= 1
     THEN s   \* resolve(dependencies) on a promise that is already resolved
     ELSE IF p # 0 /\ s.procs[p].pc = "waiting" /\ s.procs[p].call = c
     THEN [s1 EXCEPT !.procs[p].pc = "returned",
                     !.mq = Append(@, Task("complete", p))]
     ELSE s1

\* A listener that calls the handler on any firing, without the re-check; C8
\* has to tell it from the listener of resolveDeps.
RecheckFiredOnly(s, c) ==
  InvokeHandler(s, c, GetInitializedModules(s, s.calls[c].names))

\* The listener resolveDeps subscribes: re-check all names, then call handler.
Recheck(s, c) ==
  LET depMods == GetInitializedModules(s, s.calls[c].names)
  IN IF Len(depMods) = Len(s.calls[c].names) THEN InvokeHandler(s, c, depMods) ELSE s

\* A failure that takes every module back to uninitialized; C17 has to tell
\* it from the failure of a call.
FailCallRollsBack(s, c, err) ==
  LET p == s.calls[c].owner
      s1 == [s EXCEPT !.calls[c].outcome = "threw",
                      !.calls[c].err = err,
                      !.recs = [r \in 1..Len(s.recs) |->
                                  [s.recs[r] EXCEPT !.initialized = FALSE, !.module = 0]]]
  IN IF p # 0
     THEN [s1 EXCEPT !.procs[p].pc = "failed", !.procs[p].err = err]
     ELSE s1

\* An error thrown out of call c: to the caller (handler form), or as the
\* rejection of the promise the call returned; a module's initialize that
\* made the call fails with it.
FailCall(s, c, err) ==
  LET p == s.calls[c].owner
      s1 == [s EXCEPT !.calls[c].outcome =
                         IF s.calls[c].form = "handler" \/ ~s.calls[c].delegated
                         THEN "threw" ELSE "rejected",
                      !.calls[c].err = err]
  IN IF p # 0
     THEN [s1 EXCEPT !.procs[p].pc = "failed", !.procs[p].err = err]
     ELSE s1

ResolveListener(c, i) == [kind |-> "resolve", id |-> c, idx |-> i, once |-> TRUE]

\* A resolver that notes the missing names and returns before it subscribes;
\* C29 has to tell it from the loop of resolveDeps.
SubscribeMissingLater(s, c, missing) ==
  [s EXCEPT !.calls[c].subscribed = missing, !.calls[c].outcome = "waiting"]

\* missing.forEach(dep => emitter.once(`module:${dep}`, ...))
SubscribeMissing(s, c, missing) ==
  LET f[i \in 0..Len(missing)] ==
        IF i = 0 THEN s.listeners
        ELSE [f[i - 1] EXCEPT ![ModuleKey(missing[i])] = Append(@, ResolveListener(c, i))]
  IN [s EXCEPT !.listeners = f[Len(missing)],
               !.calls[c].subscribed = missing,
               !.calls[c].outcome = "waiting"]

\* Three variants of resolveDeps: one that calls the handler at once with
\* whatever is initialized (C2), one that waits for an unregistered name as
\* for a pending one (C9), one that always subscribes (C10).
ResolveDepsEager(s, c) ==
  InvokeHandler([s EXCEPT !.calls[c].outcome = "ready"], c,
                GetInitializedModules(s, s.calls[c].names))

ResolveDepsWaitsForUnregistered(s, c) ==
  LET deps == s.calls[c].names
      depMods == GetInitializedModules(s, deps)
      Missing(d) == ~IsInitialized(s, d)
  IN IF Len(depMods) = Len(deps)
     THEN InvokeHandler([s EXCEPT !.calls[c].outcome = "ready"], c, depMods)
     ELSE SubscribeMissing(s, c, SelectSeq(deps, Missing))

ResolveDepsAlwaysSubscribes(s, c) ==
  LET deps == s.calls[c].names
      Unreg == {i \in 1..Len(deps) : s.modules[deps[i]] = 0}
      Pending(d) == ~s.recs[s.modules[d]].initialized
  IN IF Unreg # {}
     THEN FailCall(s, c, UnregisteredErr(deps[CHOOSE i \in Unreg : \A j \in Unreg : i <= j]))
     ELSE SubscribeMissing(s, c, SelectSeq(deps, Pending))

\* resolveDeps(deps, handler) for call c
ResolveDeps(s, c) ==
  LET deps == s.calls[c].names
      depMods == GetInitializedModules(s, deps)
      Unreg == {i \in 1..Len(deps) : s.modules[deps[i]] = 0}
      Pending(d) == ~s.recs[s.modules[d]].initialized
  IN IF Len(depMods) = Len(deps)
     THEN InvokeHandler([s EXCEPT !.calls[c].outcome = "ready"], c, depMods)
     ELSE IF Unreg # {}
     THEN FailCall(s, c, UnregisteredErr(deps[CHOOSE i \in Unreg : \A j \in Unreg : i <= j]))
     ELSE SubscribeMissing(s, c, SelectSeq(deps, Pending))

Forms == {"handler", "promise"}

\* A dependency() call's record, before anything ran; allInit and unreg
\* record what the registry held when the call was made.
NewCall(s, owner, deps, form) ==
  [owner |-> owner, names |-> deps, form |-> form, delegated |-> FALSE,
   allInit |-> \A i \in 1..Len(deps) : IsInitialized(s, deps[i]),
   unreg |-> {deps[i] : i \in {j \in 1..Len(deps) : s.modules[deps[j]] = 0}},
   outcome |-> "none", err |-> NoErr, subscribed |-> <<>>,
   invoked |-> 0, delivered |-> <<>>]

\* dependency(name, handler) of the orchestrator, for the call record c
Dependency(s, c) == ResolveDeps([s EXCEPT !.calls[c].delegated = TRUE], c)

\* ------------------------------------------------------------------ emitter
\* The listener array without the first occurrence of h (removeListener).
RemoveFirst(ls, h) ==
  LET I == {i \in 1..Len(ls) : ls[i] = h}
  IN IF I = {} THEN ls
     ELSE LET i == CHOOSE k \in I : \A j \in I : k <= j
          IN SubSeq(ls, 1, i - 1) \o SubSeq(ls, i + 1, Len(ls))

StartListener(sid) == [kind |-> "start", id |-> sid, idx |-> 0, once |-> FALSE]

\* A listener that never settles start(); C1 has to tell it from the
\* listener start() subscribes.
CheckAllModulesLoadedNever(s, sid) == s

\* start()'s listener on context:init-module
CheckAllModulesLoaded(s, sid) ==
  LET modInfos == s.starts[sid].modInfos
  IN IF \A i \in 1..Len(modInfos) : s.recs[modInfos[i]].initialized
     THEN [s EXCEPT !.listeners[InitModuleKey] = RemoveFirst(@, StartListener(sid)),
                    !.starts[sid].state = IF @ = "pending" THEN "resolved" ELSE @]
     ELSE s

HostListener(id, once) == [kind |-> "host", id |-> id, idx |-> 0, once |-> once]

\* getModule(name), in state s
GetModuleIn(s, n) == IF s.modules[n] # 0 THEN s.recs[s.modules[n]].module ELSE 0

\* The entry of log for an emit of ns:e made by the host (by = 0) or from
\* inside the handler of subscription by.
EmitEntry(by, ns, e, payload) ==
  [type |-> "emit", by |-> by, ns |-> ns, e |-> e, args |-> payload]

\* The emit noted at position i of log has returned.
Returned(s, i) == [s EXCEPT !.log = Append(@, [type |-> "return", of |-> i])]

RECURSIVE HostHandler(_, _, _, _, _)
RECURSIVE RunListener(_, _, _, _, _, _)
RECURSIVE RunListeners(_, _, _, _, _)
RECURSIVE Emit(_, _, _, _)

\* A handler of the host, called with args for an emit of ns:e.  It notes its
\* arguments and what getModule() returns at that moment; a handler declared
\* re-emitting emits the same key again, from inside, the first time it runs.
HostHandler(s, id, args, ns, e) ==
  LET first == \A i \in 1..Len(s.log) :
                 ~(s.log[i].type = "call" /\ s.log[i].sub = id)
      s1 == [s EXCEPT !.log = Append(@,
               [type |-> "call", sub |-> id, ns |-> ns, e |-> e, args |-> args,
                mods |-> [n \in Names |-> GetModuleIn(s, n)]])]
      payload == IF s.subs[id].key[2] = "" /\ ns # "" THEN Tail(args) ELSE args
  IN IF s.subs[id].reemit /\ first
     THEN Returned(Emit([s1 EXCEPT !.log = Append(@, EmitEntry(id, ns, e, payload))],
                        ns, e, payload),
                   Len(s1.log) + 1)
     ELSE s1

\* A once wrapper without the `fired` flag: it runs whenever an emit finds
\* it among its listeners; C23 has to tell it from the wrapper of once.
RunListenerUnflagged(s, key, h, args, ns, e) ==
  LET s1 == IF h.once THEN [s EXCEPT !.listeners[key] = RemoveFirst(@, h)] ELSE s
  IN IF h.kind = "resolve" THEN Recheck(s1, h.id)
     ELSE IF h.kind = "start" THEN CheckAllModulesLoaded(s1, h.id)
     ELSE HostHandler(s1, h.id, args, ns, e)

\* One listener of an emit.  A once listener is a wrapper that does nothing
\* when it has fired; otherwise it removes itself, sets its flag and calls
\* the handler.
RunListener(s, key, h, args, ns, e) ==
  IF h.once /\ h \in s.fired THEN s
  ELSE LET s1 == IF h.once
                 THEN [s EXCEPT !.listeners[key] = RemoveFirst(@, h),
                                !.fired = @ \cup {h}]
                 ELSE s
       IN IF h.kind = "resolve" THEN Recheck(s1, h.id)
          ELSE IF h.kind = "start" THEN CheckAllModulesLoaded(s1, h.id)
          ELSE HostHandler(s1, h.id, args, ns, e)

\* EventEmitter.emit: the listeners subscribed when the emit began, in order.
RunListeners(s, key, args, ns, e) ==
  LET snapshot == s.listeners[key]
      f[k \in 0..Len(snapshot)] ==
        IF k = 0 THEN s ELSE RunListener(f[k - 1], key, snapshot[k], args, ns, e)
  IN f[Len(snapshot)]

\* An emit that asks the default emitter first and the namespace emitter
\* after it; C26 has to tell it from emit.
EmitExactFirst(s, ns, e, payload) ==
  LET s1 == IF ns # "" /\ e = "" THEN s
            ELSE RunListeners(s, <<ns, e>>, payload, ns, e)
  IN IF ns # "" /\ separator = Colon
     THEN RunListeners(s1, <<ns, "">>, <<e>> \o payload, ns, e)
     ELSE s1

\* emit(`${ns}${separator}${e}`, ...payload): the namespace emitter first,
\* with the event name in front of the payload, then the default emitter.
\* The namespace emitter is asked for the listeners of `${ns}:`, with a colon
\* whatever the separator is, while on() and once() put a namespace listener
\* under `${ns}${separator}`.  The default emitter holds no listener under a
\* namespace key.
Emit(s, ns, e, payload) ==
  LET s1 == IF ns # "" /\ separator = Colon
            THEN RunListeners(s, <<ns, "">>, <<e>> \o payload, ns, e)
            ELSE s
  IN IF ns # "" /\ e = "" THEN s1
     ELSE RunListeners(s1, <<ns, e>>, payload, ns, e)

\* ------------------------------------------------------------------ modules
\* A completion that sets the flag and emits but does not store the
\* instance; C16 has to tell it from the continuation of initializeModule.
CompleteWithoutInstance(s, p) ==
  LET r == s.procs[p].rec
      name == s.recs[r].name
      s1 == [s EXCEPT !.recs[r].initialized = TRUE,
                      !.modules[name] = r,
                      !.procs[p].pc = "done",
                      !.completed = Append(@, p)]
  IN Emit(Emit(s1, "module", name, <<r>>), "context", "init-module", <<r>>)

\* A completion that emits before it stores the instance and sets the flag;
\* C27 has to tell it from the continuation of initializeModule.
CompleteEmitsFirst(s, p) ==
  LET r == s.procs[p].rec
      name == s.recs[r].name
      s1 == Emit(Emit(s, "module", name, <<r>>), "context", "init-module", <<r>>)
  IN [s1 EXCEPT !.recs[r].module = r,
                !.recs[r].initialized = TRUE,
                !.modules[name] = r,
                !.procs[p].pc = "done",
                !.completed = Append(@, p)]

\* The continuation of initializeModule once initialize's promise resolved;
\* the instance a ModuleInfo's initialize produces is named by its identity.
Complete(s, p) ==
  LET r == s.procs[p].rec
      name == s.recs[r].name
      s1 == [s EXCEPT !.recs[r].module = r,
                      !.recs[r].initialized = TRUE,
                      !.modules[name] = r,
                      !.procs[p].pc = "done",
                      !.completed = Append(@, p)]
  IN Emit(Emit(s1, "module", name, <<r>>), "context", "init-module", <<r>>)

RECURSIVE EdgeLoop(_, _, _, _, _)
\* for(const dep of deps) { if(!modules.has(dep)) throw ...; depGraph.addE(moduleName, dep); }
EdgeLoop(g, mods, from, deps, i) ==
  IF i > Len(deps) THEN [g |-> g, err |-> NoErr]
  ELSE IF mods[deps[i]] = 0 THEN [g |-> g, err |-> UnregisteredErr(deps[i])]
  ELSE LET r == AddE(g, from, deps[i])
       IN IF r.err # NoErr THEN r ELSE EdgeLoop(r.g, mods, from, deps, i + 1)

\* The cycle check of the scoped dependency(): part_003 only.
ScopedCycle(g) == IF impl = "part_003" THEN CheckCyclic(g) ELSE <<>>

RECURSIVE ScopedLayers(_, _, _, _)
\* The scoped dependency() of each module context the call passes through,
\* outermost last: chain[1] is the calling module, and the others are the
\* modules whose scoped context was the `this` of the register() that
\* initialized it (mainContext.dependency of one layer is the dependency()
\* of the next).  [s, err]
ScopedLayers(s, chain, i, deps) ==
  IF i > Len(chain) THEN [s |-> s, err |-> NoErr]
  ELSE LET moduleName == chain[i]
           e == EdgeLoop(s.graph, s.modules, moduleName, deps, 1)
           s1 == [s EXCEPT !.recs[s.modules[moduleName]].dependencies = deps,
                           !.graph = e.g]
           cyclic == ScopedCycle(e.g)
       IN IF e.err # NoErr THEN [s |-> s1, err |-> e.err]
          ELSE IF cyclic # <<>> THEN [s |-> s1, err |-> CycleErr(cyclic)]
          ELSE ScopedLayers(s1, chain, i + 1, deps)

\* dependency(name, handler) of a module's scoped context, called by the
\* initialize invocation p, which then awaits the call.
ScopedDependency(s, p, deps, form) ==
  LET moduleName == s.recs[s.procs[p].rec].name
      c == Len(s.calls) + 1
      s1 == [s EXCEPT !.calls = Append(@, NewCall(s, p, deps, form)),
                      !.procs[p].pc = "waiting",
                      !.procs[p].call = c]
      l == ScopedLayers(s1, <<moduleName>> \o s.procs[p].ctx, 1, deps)
  IN IF l.err # NoErr THEN FailCall(l.s, c, l.err)
     ELSE Dependency(l.s, c)

\* The vertices and root edges start() of context.js adds.
StartGraph(g, names) ==
  LET f[i \in 0..Len(names)] ==
        IF i = 0 THEN AddV(g, Root)
        ELSE AddE(AddV(f[i - 1], names[i]), Root, names[i]).g
  IN f[Len(names)]

\* A loop that queues the initializations last to first; C18 has to tell it
\* from the loop of start().
InitTasksReversed(modInfos) ==
  [i \in 1..Len(modInfos) |-> Task("init", modInfos[Len(modInfos) + 1 - i])]

\* A loop that awaits each initialize before it dispatches the next, so that
\* only the first is queued by start(); C33 has to tell it from the loop of
\* start().
InitTasksAwaited(modInfos) ==
  IF modInfos = <<>> THEN <<>> ELSE <<Task("init", modInfos[1])>>

\* for(const modInfo of modInfos) chain.then(() => initializeModule(this, modInfo))
InitTasks(modInfos) == [i \in 1..Len(modInfos) |-> Task("init", modInfos[i])]

\* start()
StartOp(s) ==
  LET sid == Len(s.starts) + 1
      modInfos == [i \in 1..Len(s.order) |-> s.modules[s.order[i]]]
      inits == InitTasks(modInfos)
      s1 == [s EXCEPT !.starts = Append(@, [modInfos |-> modInfos, state |-> "pending",
                                             err |-> NoErr, noop |-> FALSE]),
                      !.listeners[InitModuleKey] = Append(@, StartListener(sid))]
  IN IF s.started
     THEN [s EXCEPT !.starts = Append(@, [modInfos |-> <<>>, state |-> "resolved",
                                           err |-> NoErr, noop |-> TRUE])]
     ELSE IF impl = "part_003"
     THEN [s1 EXCEPT !.started = TRUE, !.mq = @ \o inits]
     ELSE [s1 EXCEPT !.graph = StartGraph(@, s.order),
                     !.mq = @ \o inits \o <<Task("check", sid)>>]

\* A scoped context that hands start() through to the orchestrator, after
\* which initialize returns its instance; C15 has to tell it from the
\* scoped context.
ScopedStartPassesThrough(s, p) ==
  [StartOp(s) EXCEPT !.procs[p].pc = "returned", !.mq = Append(@, Task("complete", p))]

\* start() of a module's scoped context, called by the initialize
\* invocation p: it throws, and the throw ends that initialize.
ScopedStart(s, p) == [s EXCEPT !.procs[p].pc = "failed", !.procs[p].err = IllegalErr]

\* A declaration's initialize: it throws (fails), or it suspends on a timer
\* first (late), and then returns its instance, after requesting and
\* awaiting the dependencies deps when deps is not empty.
Defn(deps, late, fails) ==
  [deps |-> deps, late |-> late, fails |-> fails, callsStart |-> FALSE,
   registers |-> <<>>]
\* A declaration whose initialize registers, through its scoped context, a
\* module n whose initialize requests d, and then returns its instance.
RegistrarDefn(n, d) == [Defn(<<>>, FALSE, FALSE) EXCEPT !.registers = <<n, d>>]
\* A declaration whose initialize calls start() on its scoped context.
StartingDefn == [Defn(<<>>, FALSE, FALSE) EXCEPT !.callsStart = TRUE]
Defns == {Defn(<<>>, FALSE, TRUE), StartingDefn} \cup
         {Defn(d, FALSE, FALSE) : d \in DepLists \cup {<<>>}} \cup
         {Defn(d, TRUE, FALSE) : d \in {<<n>> : n \in Names} \cup {<<>>}}

RECURSIVE RunModule(_, _)

\* initializeModule(context, modInfo) up to its first suspension: initialize
\* is called with the scoped context made around context; s.self names the
\* module contexts that context is wrapped in (none for the orchestrator).  The promise it returns is dropped by
\* both callers, so a failure stays with the invocation (pc = "failed").
InitializeModule(s, r) ==
  LET p == Len(s.procs) + 1
      defn == s.recs[r].moduleDefn
      s1 == [s EXCEPT !.procs = Append(@, [rec |-> r, pc |-> "running",
                                            err |-> NoErr, call |-> 0,
                                            ctx |-> s.self])]
  IN IF defn.fails
     THEN [s1 EXCEPT !.procs[p].pc = "failed", !.procs[p].err = InitErr(s.recs[r].name)]
     ELSE IF defn.late
     THEN [s1 EXCEPT !.procs[p].pc = "sleeping"]
     ELSE RunModule(s1, p)

\* register(moduleDefn)
RegisterOp(s, n, defn) ==
  LET r == Len(s.recs) + 1
      s1 == [s EXCEPT !.recs = Append(@, [name |-> n, moduleDefn |-> defn,
                                           dependencies |-> <<>>,
                                           initialized |-> FALSE, module |-> 0]),
                      !.modules[n] = r,
                      !.order = IF n \in Range(@) THEN @ ELSE Append(@, n)]
      s2 == IF impl = "part_003"
            THEN [s1 EXCEPT !.graph = AddE(AddV(@, n), Root, n).g]
            ELSE s1
  IN IF s.started THEN InitializeModule(s2, r) ELSE s2

\* register(moduleDefn) called by the initialize invocation p on its scoped
\* context, which passes it through: `this` is that scoped context.
ScopedRegister(s, p, n, defn) ==
  LET self == <<s.recs[s.procs[p].rec].name>> \o s.procs[p].ctx
  IN [RegisterOp([s EXCEPT !.self = self], n, defn) EXCEPT !.self = s.self]

\* The code of initialize after its suspension, if any, run by invocation p.
RunModule(s, p) ==
  LET defn == s.recs[s.procs[p].rec].moduleDefn
  IN IF defn.callsStart THEN ScopedStart(s, p)
     ELSE IF defn.registers # <<>>
     THEN [ScopedRegister(s, p, defn.registers[1],
                          Defn(<<defn.registers[2]>>, FALSE, FALSE))
             EXCEPT !.procs[p].pc = "returned", !.mq = Append(@, Task("complete", p))]
     ELSE IF defn.deps = <<>>
     THEN [s EXCEPT !.procs[p].pc = "returned", !.mq = Append(@, Task("complete", p))]
     ELSE ScopedDependency(s, p, defn.deps, "promise")

\* The last reaction of start()'s chain in context.js: traverse from the
\* root; a cycle rejects the promise start() returned.
CheckOp(s, sid) ==
  LET circular == CheckCyclic(s.graph)
  IN IF circular # <<>> /\ s.starts[sid].state = "pending"
     THEN [s EXCEPT !.starts[sid].state = "rejected",
                    !.starts[sid].err = CycleErr(circular)]
     ELSE s

\* ------------------------------------------------------------------ actions
BaseInit ==
  /\ impl \in Impls
  /\ started = FALSE
  /\ recs = <<>>
  /\ modules = [n \in AllNames |-> 0]
  /\ order = <<>>
  /\ graph = [v \in VertexNames |->
               IF v = Root /\ impl = "part_003"
               THEN [present |-> TRUE, edges |-> <<>>] ELSE NoVertex]
  /\ listeners = [k \in Keys |-> <<>>]
  /\ calls = <<>>
  /\ starts = <<>>
  /\ procs = <<>>
  /\ mq = <<>>
  /\ draining = FALSE
  /\ completed = <<>>
  /\ subs = <<>>
  /\ fired = {}
  /\ log = <<>>

\* The orchestrator makes its emitter with the default separator.
Init == BaseInit /\ separator = Colon

\* The host calls made so far.
HostCalls == {c \in 1..Len(calls) : calls[c].owner = 0}
HostOps == Len(recs) + Len(starts) + Cardinality(HostCalls)

\* Host code runs between the event loop's turns, never while the microtask
\* queue is being drained.
HostTurn == ~draining /\ HostOps < MaxHostOps

\* Module names are interchangeable: the k-th distinct name registered is
\* taken to be the k-th of NameOrder.
NameOrder == <<"A", "B", "C">>
FreshName == IF Len(order) < Len(NameOrder) THEN NameOrder[Len(order) + 1] ELSE Ghost

\* The host (or any code that holds the context) registers a declaration.
Register ==
  /\ HostTurn
  /\ Len(recs) < MaxRecs
  /\ \E n \in Names, defn \in Defns :
       /\ n \in Range(order) \cup {FreshName}
       /\ Becomes(RegisterOp(Cur, n, defn))
  /\ UNCHANGED draining

\* The host calls start().
Start ==
  /\ HostTurn
  /\ Len(starts) < MaxStarts
  /\ Becomes(StartOp(Cur))
  /\ UNCHANGED draining

\* The host calls dependency() on the orchestrator.
HostDependency ==
  /\ HostTurn
  /\ Cardinality(HostCalls) < MaxHostCalls
  /\ \E deps \in DepLists, form \in Forms :
       Becomes(Dependency([Cur EXCEPT !.calls = Append(@, NewCall(Cur, 0, deps, form))],
                          Len(calls) + 1))
  /\ UNCHANGED draining

\* A reaction start() queued: initializeModule for one ModuleInfo.
InitTask ==
  /\ mq # <<>> /\ Head(mq).type = "init"
  /\ Becomes(InitializeModule([Cur EXCEPT !.mq = Tail(@)], Head(mq).id))
  /\ draining' = (mq' # <<>>)

\* The reaction of context.js that checks the graph.
CheckTask ==
  /\ mq # <<>> /\ Head(mq).type = "check"
  /\ Becomes(CheckOp([Cur EXCEPT !.mq = Tail(@)], Head(mq).id))
  /\ draining' = (mq' # <<>>)

\* A suspended initialize goes on after its timer.
ResumeTask ==
  /\ mq # <<>> /\ Head(mq).type = "resume"
  /\ Becomes(RunModule([Cur EXCEPT !.mq = Tail(@)], Head(mq).id))
  /\ draining' = (mq' # <<>>)

\* The completion of an initialize that returned its instance.
CompleteTask ==
  /\ mq # <<>> /\ Head(mq).type = "complete"
  /\ Becomes(Complete([Cur EXCEPT !.mq = Tail(@)], Head(mq).id))
  /\ draining' = (mq' # <<>>)

\* A timer fires (a macrotask: only when no microtask is queued).
TimerFire ==
  /\ mq = <<>>
  /\ \E p \in 1..Len(procs) :
       /\ procs[p].pc = "sleeping"
       /\ Becomes([Cur EXCEPT !.procs[p].pc = "resuming",
                              !.mq = Append(@, Task("resume", p))])
  /\ draining' = TRUE

Next ==
  \/ Register
  \/ Start
  \/ HostDependency
  \/ InitTask
  \/ CheckTask
  \/ ResumeTask
  \/ CompleteTask
  \/ TimerFire

Spec == Init /\ [][Next]_vars

\* One turn of the event loop: the next microtask, or a timer.
EventLoop == InitTask \/ CheckTask \/ ResumeTask \/ CompleteTask \/ TimerFire

\* A startup: the host registers its modules, calls start() once, and the
\* event loop runs whatever is queued until nothing is left.
RegisterBeforeStart == starts = <<>> /\ Register
StartOnce == starts = <<>> /\ Start

StartupNext ==
  \/ RegisterBeforeStart
  \/ StartOnce
  \/ InitTask
  \/ CheckTask
  \/ ResumeTask
  \/ CompleteTask
  \/ TimerFire

\* The event loop never stops while a microtask is queued or a timer is
\* pending. This is weak fairness of EventLoop, WF_vars(EventLoop), written
\* out: EventLoop is enabled exactly when LoopEnabled holds, because the
\* action for the task at the head of the queue has no other guard.
LoopEnabled == mq # <<>> \/ \E p \in 1..Len(procs) : procs[p].pc = "sleeping"
EventLoopFairness == []<>(~LoopEnabled) \/ []<><<EventLoop>>_vars

StartupSpec == Init /\ [][StartupNext]_vars /\ EventLoopFairness

\* ------------------------------------------------------------------ events
\* The emitter as the host uses it through on(), once() and emit() of the
\* context, with no module registered.
SubKeys == {ModuleKey("A"), ModuleKey("B"), <<"module", "">>}
EmitKeys == {ModuleKey("A"), ModuleKey("B"), InitModuleKey}
Payloads == {<<7>>}

\* A subscription that replays a buffered event: the handler is called at
\* once when the key was emitted before; C24 has to tell it from on/once.
HostSubscribeReplaying(s, key, once, reemit) ==
  LET id == Len(s.subs) + 1
      s1 == [s EXCEPT !.subs = Append(@, [key |-> key, once |-> once, reemit |-> FALSE,
                                          at |-> Len(s.log), off |-> FALSE]),
                      !.listeners[key] = Append(@, HostListener(id, once))]
      past == {i \in 1..Len(s.log) : s.log[i].type = "emit" /\ key = <<s.log[i].ns, s.log[i].e>>}
  IN IF past = {} THEN s1
     ELSE LET i == CHOOSE k \in past : \A j \in past : j <= k
          IN HostHandler(s1, id, s.log[i].args, s.log[i].ns, s.log[i].e)

\* on(key, handler) and once(key, handler) with a handler of its own
HostSubscribe(s, key, once, reemit) ==
  LET id == Len(s.subs) + 1
  IN [s EXCEPT !.subs = Append(@, [key |-> key, once |-> once, reemit |-> reemit,
                                   at |-> Len(s.log), off |-> FALSE]),
               !.listeners[key] = Append(@, HostListener(id, once))]

\* the function on() and once() return: emitter.off(event, handler)
HostUnsubscribe(s, id) ==
  [s EXCEPT !.subs[id].off = TRUE,
            !.listeners[s.subs[id].key] = RemoveFirst(@, HostListener(id, s.subs[id].once))]

\* emit(key, ...payload) called by the host
HostEmit(s, key, payload) ==
  Returned(Emit([s EXCEPT !.log = Append(@, EmitEntry(0, key[1], key[2], payload))],
                key[1], key[2], payload),
           Len(s.log) + 1)

EmitsIn(l) == {i \in 1..Len(l) : l[i].type = "emit"}

On ==
  /\ ~draining
  /\ Len(subs) < MaxSubs
  /\ \E key \in SubKeys, once, reemit \in BOOLEAN :
       /\ reemit => Cardinality({i \in 1..Len(subs) : subs[i].reemit}) < MaxReemits
       /\ Becomes(HostSubscribe(Cur, key, once, reemit))
  /\ UNCHANGED draining

Off ==
  /\ ~draining
  /\ Cardinality({i \in 1..Len(subs) : subs[i].off}) < MaxOffs
  /\ \E id \in 1..Len(subs) :
       /\ ~subs[id].off
       /\ Becomes(HostUnsubscribe(Cur, id))
  /\ UNCHANGED draining

EmitOp ==
  /\ ~draining
  /\ Cardinality({i \in EmitsIn(log) : log[i].by = 0}) < MaxEmits
  /\ \E key \in EmitKeys, payload \in Payloads :
       Becomes(HostEmit(Cur, key, payload))
  /\ UNCHANGED draining

EmitterNext == On \/ Off \/ EmitOp

EmitterInit == BaseInit /\ impl = "context" /\ separator \in Separators

EmitterSpec == EmitterInit /\ [][EmitterNext]_vars

\* ------------------------------------------------------------------ close
\* close(): the default emitter, which holds the listeners of the exact
\* keys, loses the listeners of every event name; a namespace emitter is
\* asked to remove the listeners of the event name ns, and it holds its
\* listeners under the event name `${ns}${separator}`.
CloseOp(s) ==
  [s EXCEPT !.listeners = [k \in DOMAIN @ |-> IF k[2] = "" THEN @[k] ELSE <<>>],
            !.log = Append(@, [type |-> "close"])]

\* The positions of log at which close() was called.
ClosesIn(l) == {i \in 1..Len(l) : l[i].type = "close"}

Close ==
  /\ ~draining
  /\ Cardinality(ClosesIn(log)) < MaxCloses
  /\ Becomes(CloseOp(Cur))
  /\ UNCHANGED draining

\* The emitter with a host that subscribes, emits and closes.
ClosingNext == On \/ EmitOp \/ Close

ClosingSpec == EmitterInit /\ [][ClosingNext]_vars

\* ------------------------------------------------------------------ observers
\* The orchestrator with a host that subscribes handlers of its own to the
\* completion events, at any moment between the event loop's turns.
ObservedKeys == {ModuleKey("A"), <<"module", "">>}

Observe ==
  /\ ~draining
  /\ Len(subs) < MaxObservers
  /\ \E key \in ObservedKeys, once \in BOOLEAN :
       Becomes(HostSubscribe(Cur, key, once, FALSE))
  /\ UNCHANGED draining

ObservedRegister == Len(recs) < MaxObservedRecs /\ Register

ObservedNext ==
  \/ Observe
  \/ ObservedRegister
  \/ StartOnce
  \/ InitTask
  \/ CheckTask
  \/ ResumeTask
  \/ CompleteTask
  \/ TimerFire

ObservedSpec == Init /\ [][ObservedNext]_vars

\* ------------------------------------------------------------------ reserved keys
\* A startup during which the host emits on the keys the orchestrator uses
\* itself: the host registers modules under names of their own, calls
\* start() once and calls emit() between the event loop's turns.
InterferedRegister ==
  /\ HostTurn
  /\ starts = <<>>
  /\ Len(recs) < MaxObservedRecs
  /\ FreshName \in Names
  /\ \E defn \in Defns : Becomes(RegisterOp(Cur, FreshName, defn))
  /\ UNCHANGED draining

InterferedNext ==
  \/ InterferedRegister
  \/ StartOnce
  \/ EmitOp
  \/ InitTask
  \/ CheckTask
  \/ ResumeTask
  \/ CompleteTask
  \/ TimerFire

InterferedSpec == Init /\ [][InterferedNext]_vars

\* ------------------------------------------------------------------ graphs
\* The graph alone: any sequence of addV and addE calls that succeed, up to
\* MaxEdges edges.
EdgeCount(g) ==
  LET f[S \in SUBSET VertexNames] ==
        IF S = {} THEN 0
        ELSE LET v == CHOOSE x \in S : TRUE IN Len(g[v].edges) + f[S \ {v}]
  IN f[VertexNames]

GraphAddV ==
  /\ \E v \in VertexNames : graph' = AddV(graph, v)
  /\ UNCHANGED <<impl, separator, started, recs, modules, order, listeners, calls, starts,
                 procs, mq, draining, completed, subs, fired, log>>

GraphAddE ==
  /\ EdgeCount(graph) < MaxEdges
  /\ \E s, t \in VertexNames :
       /\ AddE(graph, s, t).err = NoErr
       /\ graph' = AddE(graph, s, t).g
  /\ UNCHANGED <<impl, separator, started, recs, modules, order, listeners, calls, starts,
                 procs, mq, draining, completed, subs, fired, log>>

GraphNext == GraphAddV \/ GraphAddE

GraphSpec == Init /\ [][GraphNext]_vars

\* ------------------------------------------------------------------ dynamic
\* Modules that register further modules from inside their initialize:
\* the host registers plain modules and such registrars, calls start(), and
\* the event loop runs.
DynamicDefns ==
  {Defn(<<>>, FALSE, FALSE), Defn(<<>>, TRUE, FALSE)} \cup
  {RegistrarDefn(n, d) : n, d \in Names}

DynamicRegister ==
  /\ HostTurn
  /\ Len(recs) < MaxRecs
  /\ \E n \in Names, defn \in DynamicDefns :
       /\ n \in Range(order) \cup {FreshName}
       /\ Becomes(RegisterOp(Cur, n, defn))
  /\ UNCHANGED draining

DynamicNext ==
  \/ DynamicRegister
  \/ Start
  \/ InitTask
  \/ CheckTask
  \/ ResumeTask
  \/ CompleteTask
  \/ TimerFire

DynamicSpec == Init /\ [][DynamicNext]_vars

\* ------------------------------------------------------------------ claims
\* getModule(name)
GetModule(n) == IF modules[n] # 0 THEN recs[modules[n]].module ELSE 0

NameOf(p) == recs[procs[p].rec].name

\* Nothing is left to run: no microtask is queued and no timer is pending.
Quiescent == mq = <<>> /\ \A p \in 1..Len(procs) : procs[p].pc # "sleeping"

AllInitializedNow(names) ==
  \A i \in 1..Len(names) : modules[names[i]] # 0 /\ recs[modules[names[i]]].initialized

\* C1: when every registered module was registered once and before start(),
\* none throws, all requested names are registered and the requests form no
\* cycle, the promise of start() resolves, and from then on getModule() is
\* non-null for every registered module.
DeclaredDeps(n) == IF modules[n] = 0 THEN {} ELSE Range(recs[modules[n]].moduleDefn.deps)
Reach1(S) == S \cup UNION {DeclaredDeps(m) : m \in S}
ReachFrom(n) == Reach1(Reach1(Reach1(DeclaredDeps(n))))
DeclaredAcyclic == \A n \in Names : n \notin ReachFrom(n)

CleanStartup ==
  /\ Len(starts) = 1 /\ Len(order) >= 1
  /\ Len(recs) = Len(order)
  /\ starts[1].modInfos = [i \in 1..Len(recs) |-> i]
  /\ \A r \in 1..Len(recs) :
       /\ ~recs[r].moduleDefn.fails /\ ~recs[r].moduleDefn.callsStart
       /\ Range(recs[r].moduleDefn.deps) \subseteq Range(order)
  /\ DeclaredAcyclic

AllModulesAvailable == \A n \in Range(order) : GetModule(n) # 0

C1_StartResolves ==
  /\ CleanStartup ~> (~CleanStartup \/ (starts[1].state = "resolved" /\ AllModulesAvailable))
  /\ [](CleanStartup /\ starts[1].state = "resolved" => AllModulesAvailable)

\* Three modules of which one awaits the other two; start() has resolved.
C1_Witness ==
  /\ CleanStartup
  /\ Len(recs) = 3
  /\ \E r \in 1..3 : Len(recs[r].moduleDefn.deps) = 2
  /\ starts[1].state = "resolved"
  /\ AllModulesAvailable

\* C2: a module that awaits dependency(d) completes after d has completed,
\* whatever the registration order; A(deps B), B(deps C), C(no deps) complete
\* in the order C, B, A.
ChainScenario ==
  /\ Len(recs) = 3
  /\ recs[1] = [name |-> "A", moduleDefn |-> Defn(<<"B">>, FALSE, FALSE),
                dependencies |-> recs[1].dependencies,
                initialized |-> recs[1].initialized, module |-> recs[1].module]
  /\ recs[2].name = "B" /\ recs[2].moduleDefn = Defn(<<"C">>, FALSE, FALSE)
  /\ recs[3].name = "C" /\ recs[3].moduleDefn = Defn(<<>>, FALSE, FALSE)

C2_DependencyCompletesFirst ==
  /\ \A i \in 1..Len(completed) :
       LET c == procs[completed[i]].call
       IN c # 0 =>
            \A k \in 1..Len(calls[c].names) :
              \E j \in 1..(i - 1) : NameOf(completed[j]) = calls[c].names[k]
  /\ ChainScenario /\ Len(starts) = 1 /\ Len(completed) = 3 =>
       [i \in 1..3 |-> NameOf(completed[i])] = <<"C", "B", "A">>

C2_Witness ==
  /\ ChainScenario
  /\ Len(completed) = 3
  /\ [i \in 1..3 |-> NameOf(completed[i])] = <<"C", "B", "A">>

\* C3: with A requesting B and B requesting A, start() rejects with a cycle
\* error whose chain holds A and B.
CycleScenario ==
  /\ Len(recs) = 2 /\ Len(starts) = 1 /\ starts[1].modInfos = <<1, 2>>
  /\ recs[1].name = "A" /\ recs[1].moduleDefn = Defn(<<"B">>, FALSE, FALSE)
  /\ recs[2].name = "B" /\ recs[2].moduleDefn = Defn(<<"A">>, FALSE, FALSE)

C3_StartRejectsOnCycle ==
  CycleScenario /\ Quiescent =>
    /\ starts[1].state = "rejected"
    /\ starts[1].err.kind = "cycle"
    /\ {"A", "B"} \subseteq Range(starts[1].err.path)

\* C4: when a module requests a name that was never registered, start()
\* rejects with an unregistered-dependency error naming it.
GhostScenario ==
  /\ Len(recs) = 1 /\ Len(starts) = 1 /\ starts[1].modInfos = <<1>>
  /\ recs[1].name = "A" /\ recs[1].moduleDefn = Defn(<<Ghost>>, FALSE, FALSE)

C4_StartRejectsOnUnregistered ==
  GhostScenario /\ Quiescent =>
    starts[1].state = "rejected" /\ starts[1].err = UnregisteredErr(Ghost)

\* C5: when the initialize of a module dispatched by start() throws, start()
\* rejects with that error, and that initialize is not invoked again.
FailedInStart(sid) ==
  {p \in 1..Len(procs) : /\ procs[p].pc = "failed"
                         /\ procs[p].err.kind = "init"
                         /\ procs[p].rec \in Range(starts[sid].modInfos)}

C5_StartRejectsOnFailure ==
  Len(starts) >= 1 /\ ~starts[1].noop /\ Quiescent /\ FailedInStart(1) # {} =>
    /\ starts[1].state = "rejected"
    /\ \E p \in FailedInStart(1) : starts[1].err = procs[p].err
    /\ \A p \in FailedInStart(1) :
         Cardinality({q \in 1..Len(procs) : procs[q].rec = procs[p].rec}) = 1

\* C6: the i-th value a dependency() call delivers is the instance of the
\* module named names[i].
C6_InstancesInRequestedOrder ==
  \A c \in 1..Len(calls) :
    \A k \in 1..Len(calls[c].delivered) :
      /\ Len(calls[c].delivered[k]) = Len(calls[c].names)
      /\ \A i \in 1..Len(calls[c].names) :
           /\ calls[c].delivered[k][i] \in 1..Len(recs)
           /\ recs[calls[c].delivered[k][i]].name = calls[c].names[i]
           /\ recs[calls[c].delivered[k][i]].module = calls[c].delivered[k][i]

\* A call for B and C, answered after C completed before B.
C6_Witness ==
  \E c \in 1..Len(calls) :
    /\ calls[c].names = <<"B", "C">>
    /\ calls[c].subscribed = <<"B", "C">>
    /\ calls[c].invoked = 1
    /\ \E i, j \in 1..Len(completed) :
         i < j /\ NameOf(completed[i]) = "C" /\ NameOf(completed[j]) = "B"

\* C7: the handler of a dependency() call is invoked exactly once: never
\* twice, and it has been invoked once all its names are initialized.
C7_OnReadyExactlyOnce ==
  \A c \in 1..Len(calls) :
    calls[c].delegated /\ calls[c].unreg = {} =>
      /\ calls[c].invoked <= 1
      /\ AllInitializedNow(calls[c].names) => calls[c].invoked = 1

\* C8: a handler is invoked only in a state where every requested name is
\* initialized.
InvokedBefore(c) == IF c <= Len(calls) THEN calls[c].invoked ELSE 0

C8_NoPrematureOnReady ==
  [][\A c \in 1..Len(calls') :
       calls'[c].invoked > InvokedBefore(c) =>
         \A i \in 1..Len(calls'[c].names) :
           /\ modules'[calls'[c].names[i]] # 0
           /\ recs'[modules'[calls'[c].names[i]]].initialized]_vars

\* A call that subscribed to two names and was answered.
C8_Witness ==
  \E c \in 1..Len(calls) :
    /\ Len(calls[c].subscribed) = 2
    /\ calls[c].subscribed[1] # calls[c].subscribed[2]
    /\ calls[c].invoked >= 1

\* C9: a dependency() call naming an unregistered module fails at once with
\* an unregistered-dependency error (thrown in the handler form, a rejection
\* in the promise form) and subscribes to nothing.
C9_UnregisteredFailsFast ==
  \A c \in 1..Len(calls) :
    calls[c].delegated /\ calls[c].unreg # {} =>
      /\ calls[c].outcome = IF calls[c].form = "handler" THEN "threw" ELSE "rejected"
      /\ calls[c].err.kind = "unregistered"
      /\ calls[c].err.name \in calls[c].unreg
      /\ calls[c].subscribed = <<>>
      /\ calls[c].invoked = 0
      /\ \A k \in Keys : \A i \in 1..Len(listeners[k]) :
           ~(listeners[k][i].kind = "resolve" /\ listeners[k][i].id = c)

\* A call for a pending module and an unregistered one, rejected.
C9_Witness ==
  \E c \in 1..Len(calls) :
    /\ calls[c].delegated
    /\ calls[c].names = <<"B", Ghost>>
    /\ modules["B"] # 0 /\ ~recs[modules["B"]].initialized
    /\ calls[c].outcome = "rejected"

\* C10: when every name is initialized at the call, the handler is invoked
\* before the call returns, and nothing is subscribed.
C10_ReadyIsSynchronous ==
  \A c \in 1..Len(calls) :
    calls[c].delegated /\ calls[c].allInit =>
      /\ calls[c].outcome = "ready"
      /\ calls[c].invoked = 1
      /\ calls[c].subscribed = <<>>

C10_Witness ==
  \E c \in 1..Len(calls) :
    /\ calls[c].delegated /\ calls[c].allInit
    /\ Len(calls[c].names) = 2
    /\ calls[c].invoked = 1

\* C11: a start() call made when an earlier start() has resolved settles at
\* once, queues no initialize, emits nothing and leaves registry, graph and
\* subscriptions as they were.
C11_RestartIsNoOp ==
  [][(/\ Len(starts') = Len(starts) + 1
      /\ \E sid \in 1..Len(starts) : starts[sid].state = "resolved")
     => /\ starts'[Len(starts')].state = "resolved"
        /\ procs' = procs /\ mq' = mq /\ completed' = completed
        /\ recs' = recs /\ modules' = modules
        /\ graph' = graph /\ listeners' = listeners]_vars

\* C12: the initialize of a ModuleInfo is invoked at most once and completes
\* at most once, and its initialized flag, once true, stays true.
InvocationsOf(r) == {p \in 1..Len(procs) : procs[p].rec = r}
CompletionsOf(r) == {i \in 1..Len(completed) : procs[completed[i]].rec = r}

C12_InitializedExactlyOnce ==
  [][/\ \A r \in 1..Len(recs') :
          /\ Cardinality(InvocationsOf(r)') <= 1
          /\ Cardinality(CompletionsOf(r)') <= 1
     /\ \A r \in 1..Len(recs) :
          recs[r].initialized => recs'[r].initialized]_vars

\* C13: register() called when a start() has resolved invokes the new
\* module's initialize within the call; register() called before any start()
\* invokes nothing and queues nothing.
C13_RegisterAfterStartInitializes ==
  [][Len(recs') = Len(recs) + 1 =>
       /\ (\E sid \in 1..Len(starts) : starts[sid].state = "resolved")
            => \E p \in 1..Len(procs') : p > Len(procs) /\ procs'[p].rec = Len(recs')
       /\ starts = <<>> => procs' = procs /\ mq' = mq]_vars

\* C14: a scoped dependency() call on registered names whose edges close a
\* cycle fails with the cycle error carrying the chain, before it reaches the
\* resolver: it is not delegated, its handler is never invoked and no
\* listener is subscribed for it.
ListenersOf(c) ==
  {k \in Keys : \E i \in 1..Len(listeners[k]) :
                   listeners[k][i].kind = "resolve" /\ listeners[k][i].id = c}

C14_CycleFailsTheCall ==
  [][/\ \A c \in 1..Len(calls') :
          (/\ c > Len(calls) /\ calls'[c].owner # 0 /\ calls'[c].unreg = {}
           /\ CheckCyclic(graph) = <<>> /\ CheckCyclic(graph') # <<>>)
          => /\ calls'[c].outcome = "threw"
             /\ calls'[c].err = CycleErr(CheckCyclic(graph'))
             /\ ~calls'[c].delegated
     /\ \A c \in 1..Len(calls') :
          calls'[c].err.kind = "cycle"
          => calls'[c].invoked = 0 /\ calls'[c].subscribed = <<>> /\ ListenersOf(c)' = {}]_vars

\* C15: start() called through a module's scoped context always throws the
\* illegal-operation error, which ends that initialize, and the step in
\* which it is called starts nothing: no start() record, started and the
\* subscriptions as before, and registry and graph as before unless the
\* step is the register() that invoked the initialize.
CallsStart(p) == recs[procs[p].rec].moduleDefn.callsStart

C15_ScopedStartThrows ==
  [][\A p \in 1..Len(procs') :
       CallsStart(p)' =>
         /\ procs'[p].pc = "failed" /\ procs'[p].err = IllegalErr
         /\ p > Len(procs) =>
              /\ starts' = starts /\ started' = started /\ listeners' = listeners
              /\ Len(recs') = Len(recs) =>
                   recs' = recs /\ modules' = modules /\ graph' = graph]_vars

\* start() was called from an initialize while a startup was under way, in
\* the revision whose started flag is set by then.
C15_Witness ==
  /\ impl = "part_003" /\ started
  /\ Len(starts) = 1 /\ starts[1].state = "pending"
  /\ \E p \in 1..Len(procs) : CallsStart(p) /\ procs[p].err = IllegalErr

\* C16: getModule(name) is the instance produced for the ModuleInfo now
\* registered under name when that ModuleInfo is initialized, and null
\* (0) otherwise: for a name never registered, for one not yet initialized
\* and for one whose initialize failed.
C16_GetModuleIffInitialized ==
  \A n \in AllNames :
    GetModule(n) = IF modules[n] # 0 /\ recs[modules[n]].initialized
                   THEN modules[n] ELSE 0

\* One module initialized, one whose initialize failed, one name unregistered.
C16_Witness ==
  /\ GetModule("A") # 0
  /\ modules["B"] # 0 /\ GetModule("B") = 0
  /\ \E p \in 1..Len(procs) : NameOf(p) = "B" /\ procs[p].pc = "failed"
  /\ modules["C"] = 0 /\ GetModule("C") = 0 /\ GetModule(Ghost) = 0

\* C17: once an initialize has failed, every module that completed is still
\* initialized and getModule() still returns its instance, as long as no
\* name is registered a second time.
SomeInitializeFailed == \E p \in 1..Len(procs) : procs[p].pc = "failed"

C17_FailureRollsBackNothing ==
  SomeInitializeFailed /\ Len(recs) = Len(order) =>
    \A i \in 1..Len(completed) :
      /\ recs[procs[completed[i]].rec].initialized
      /\ GetModule(NameOf(completed[i])) = procs[completed[i]].rec

\* During one start(), a module completed and then another, which had
\* suspended on a timer, failed.
C17_Witness ==
  /\ Len(starts) = 1 /\ Len(recs) = Len(order)
  /\ \E p, q \in 1..Len(procs) :
       /\ procs[p].pc = "done" /\ ~recs[procs[p].rec].moduleDefn.late
       /\ procs[q].pc = "failed" /\ recs[procs[q].rec].moduleDefn.late
       /\ GetModule(NameOf(p)) = procs[p].rec

\* C18: the first start() invokes the initialize operations in the order in
\* which the modules' names were first registered: of two ModuleInfos it
\* dispatches, the one whose name was registered first is invoked first.
FirstRegistered(n) ==
  CHOOSE r \in 1..Len(recs) : recs[r].name = n /\ \A q \in 1..(r - 1) : recs[q].name # n
FirstInvocation(r) ==
  CHOOSE p \in InvocationsOf(r) : \A q \in InvocationsOf(r) : p <= q

C19_VertexPerModule ==
  Len(starts) >= 1 =>
    /\ \A n \in Names :
         modules[n] # 0 => graph[n].present /\ ContainsEdge(graph, Root, n)
    /\ \A c \in 1..Len(calls) : calls[c].err.kind # "vertex"

\* C20: the traversal from the root reports a cycle exactly when a directed
\* cycle can be reached from the root, and the chain it reports is a walk
\* along edges that starts at the root and ends by coming back to a vertex
\* already on it, so it holds every vertex of the cycle it closes.
GraphSucc(g, S) == UNION {Range(g[v].edges) : v \in S}

RECURSIVE GraphReach(_, _, _)
\* The vertices reached from S over at most k further edges.
GraphReach(g, S, k) == IF k = 0 THEN S ELSE GraphReach(g, S \cup GraphSucc(g, S), k - 1)

ReachableCycle(g) ==
  /\ g[Root].present
  /\ \E v \in GraphReach(g, {Root}, Cardinality(VertexNames)) :
       v \in GraphReach(g, GraphSucc(g, {v}), Cardinality(VertexNames))

ClosedWalkFromRoot(g, w) ==
  /\ Len(w) >= 2 /\ w[1] = Root
  /\ \A i \in 1..(Len(w) - 1) : ContainsEdge(g, w[i], w[i + 1])
  /\ \E k \in 1..(Len(w) - 1) : w[k] = w[Len(w)]

C20_CycleCheckIsExact ==
  /\ CheckCyclic(graph) # <<>> <=> ReachableCycle(graph)
  /\ CheckCyclic(graph) # <<>> => ClosedWalkFromRoot(graph, CheckCyclic(graph))

\* A cycle behind the second edge of the root, which the
\* traversal reports after it has walked a branch without a cycle.
C20_Witness ==
  /\ graph[Root].edges = <<"A", "B">>
  /\ graph["A"].edges = <<>>
  /\ CheckCyclic(graph) = <<Root, "B", "C", "B">>

\* C21: addE(s, t) with s or t absent from the graph fails with a
\* vertex-not-found error and leaves the graph as it was; and in every
\* reachable graph, the source and the target of every edge are vertices of
\* the graph.
C21_AddEdgeNeedsBothEndpoints ==
  /\ \A s \in VertexNames : \A t \in VertexNames \cup {Ghost} :
       (~graph[s].present \/ t = Ghost \/ ~graph[t].present) =>
         /\ AddE(graph, s, t).err.kind = "vertex"
         /\ AddE(graph, s, t).err.name = (IF ~graph[s].present THEN s ELSE t)
         /\ AddE(graph, s, t).g = graph
  /\ \A s \in VertexNames : \A i \in 1..Len(graph[s].edges) :
       /\ graph[s].present
       /\ graph[s].edges[i] \in VertexNames
       /\ graph[graph[s].edges[i]].present

\* A graph with an edge and with a vertex name that was never added.
C21_Witness ==
  /\ \E s \in VertexNames : ~graph[s].present
  /\ \E s \in VertexNames : graph[s].edges # <<>>

\* C22: no vertex holds two edges with the same source and target, and
\* addE(s, t) for an edge the graph already holds succeeds and leaves the
\* graph, the order of the edges of s included, as it was.
C22_EdgesAreUnique ==
  /\ \A s \in VertexNames : \A i, j \in 1..Len(graph[s].edges) :
       graph[s].edges[i] = graph[s].edges[j] => i = j
  /\ \A s \in VertexNames : \A i \in 1..Len(graph[s].edges) :
       AddE(graph, s, graph[s].edges[i]) = [g |-> graph, err |-> NoErr]

\* A vertex with two edges, so that a repeated addE has an order to disturb.
C22_Witness == \E s \in VertexNames : Len(graph[s].edges) >= 2

\* The calls of the handler of subscription id, as positions in log.
CallsOf(id) == {i \in 1..Len(log) : log[i].type = "call" /\ log[i].sub = id}

\* The emits that a listener under key is subscribed for: of that key, or of
\* any key of the namespace when key is a namespace key.
Delivers(key, ns, e) == key = <<ns, e>> \/ (ns # "" /\ key = <<ns, "">>)

\* The emits after subscription id was made that its key is subscribed for.
EmitsFor(id) ==
  {i \in EmitsIn(log) : i > subs[id].at /\ Delivers(subs[id].key, log[i].ns, log[i].e)}

\* C23: a handler subscribed with once(key, handler) is invoked at most
\* once, however many emits of the key follow, an emit of the same key made
\* from inside a handler while the first emit is being delivered included.
C23_OnceAtMostOnce ==
  \A id \in 1..Len(subs) : subs[id].once => Cardinality(CallsOf(id)) <= 1

\* A once handler that was called, with three emits of its key after the
\* subscription, one of them made from inside a handler that runs before it.
C23_Witness ==
  \E id \in 1..Len(subs) :
    /\ subs[id].once
    /\ CallsOf(id) # {}
    /\ Cardinality(EmitsFor(id)) >= 3
    /\ \E i \in EmitsFor(id) :
         /\ log[i].by # 0
         /\ log[i].by < id
         /\ subs[log[i].by].key = subs[id].key

\* The emits of exactly the key of subscription id made after it subscribed.
ExactEmitsFor(id) ==
  {i \in EmitsFor(id) : subs[id].key = <<log[i].ns, log[i].e>>}

\* C24: a once subscription on an exact key k that has not been unsubscribed
\* is invoked by the first emit of k made after the subscription: when that
\* emit returns the handler has been called, with the emit's arguments, and
\* no later emit of the host calls it.  It is never invoked on account of an
\* emit made before it subscribed: no handler, once or not, is called unless
\* an emit that reaches its key was made after its subscription.
C24_OnceFiresOnFirstEmitAfter ==
  /\ \A id \in 1..Len(subs) :
       (subs[id].once /\ ~subs[id].off /\ subs[id].key[2] # "") =>
         IF ExactEmitsFor(id) = {} THEN CallsOf(id) = {}
         ELSE LET first == CHOOSE i \in ExactEmitsFor(id) :
                             \A j \in ExactEmitsFor(id) : i <= j
              IN /\ Cardinality(CallsOf(id)) = 1
                 /\ \A c \in CallsOf(id) :
                      /\ c > first
                      /\ log[c].args = log[first].args
                      /\ \A j \in ExactEmitsFor(id) :
                           (j > first /\ log[j].by = 0) => c < j
  /\ \A id \in 1..Len(subs) : \A c \in CallsOf(id) :
       \E i \in EmitsFor(id) : i < c

\* A once subscription made after an emit of its key, called by the first of
\* two later emits of the key.
C24_Witness ==
  \E id \in 1..Len(subs) :
    /\ subs[id].once /\ ~subs[id].off /\ subs[id].key[2] # ""
    /\ \E i \in 1..subs[id].at :
         log[i].type = "emit" /\ subs[id].key = <<log[i].ns, log[i].e>>
    /\ Cardinality(ExactEmitsFor(id)) >= 2
    /\ CallsOf(id) # {}

\* The subscriptions whose listener the emitter holds.
Subscribed(id) ==
  HostListener(id, subs[id].once) \in Range(listeners[subs[id].key])

\* C25: emit(ns:e, args...) calls every handler subscribed to the namespace
\* key ns: with (e, args...) and every handler subscribed to the exact key
\* ns:e with (args...), each once for the emit (for each of the emits, when a
\* handler emits the key again from inside; a once handler once in all), and
\* calls no handler of another exact key or of another namespace.
C25_EmitReachesNamespaceAndExact ==
  [][(Len(log') > Len(log) /\ log'[Len(log) + 1].type = "emit") =>
       LET em == log'[Len(log) + 1]
           emits == {i \in EmitsIn(log') : i > Len(log)}
           new(id) == {c \in (CallsOf(id))' : c > Len(log)}
       IN \A id \in 1..Len(subs) :
            IF Subscribed(id) /\ Delivers(subs[id].key, em.ns, em.e)
            THEN /\ Cardinality(new(id)) =
                      (IF subs[id].once THEN 1 ELSE Cardinality(emits))
                 /\ \A c \in new(id) :
                      /\ Len(log'[c].args) =
                           (IF subs[id].key[2] = "" THEN Len(em.args) + 1
                                                   ELSE Len(em.args))
                      /\ log'[c].args =
                           (IF subs[id].key[2] = "" THEN <<em.e>> \o em.args
                                                   ELSE em.args)
            ELSE new(id) = {}]_vars

\* The calls made for the emit noted at position i of log: those between
\* the emit and its return that belong to no emit nested in it.
CallsFor(i) ==
  LET ret == CHOOSE r \in 1..Len(log) : log[r].type = "return" /\ log[r].of = i
  IN {c \in (i + 1)..(ret - 1) :
        /\ log[c].type = "call"
        /\ ~\E j \in (i + 1)..(c - 1) :
             /\ log[j].type = "emit"
             /\ \E r \in (c + 1)..(ret - 1) : log[r].type = "return" /\ log[r].of = j}

IsNamespaceCall(c) == subs[log[c].sub].key[2] = ""

\* C26: on an emit of a namespaced key ns:e, the handlers subscribed to the
\* namespace key ns: are called first, in the order of their subscription,
\* and after all of them the handlers subscribed to the exact key ns:e, in
\* the order of their subscription.
C26_NamespaceHandlersFirst ==
  \A i \in EmitsIn(log) : \A c1, c2 \in CallsFor(i) :
    /\ (IsNamespaceCall(c1) /\ ~IsNamespaceCall(c2)) => c1 < c2
    /\ (IsNamespaceCall(c1) = IsNamespaceCall(c2) /\ log[c1].sub < log[c2].sub)
         => c1 < c2

\* C26 as the specification words it: the handlers of the exact key are
\* called, in subscription order, before any handler of the namespace key.
C26_ExactHandlersFirst ==
  \A i \in EmitsIn(log) : \A c1, c2 \in CallsFor(i) :
    /\ (~IsNamespaceCall(c1) /\ IsNamespaceCall(c2)) => c1 < c2
    /\ (~IsNamespaceCall(c1) /\ ~IsNamespaceCall(c2) /\ log[c1].sub < log[c2].sub)
         => c1 < c2

\* An emit that called two handlers of the namespace key and a handler of
\* the exact key subscribed before them.
C26_Witness ==
  \E i \in EmitsIn(log) : \E x, n1, n2 \in CallsFor(i) :
    /\ ~IsNamespaceCall(x) /\ IsNamespaceCall(n1) /\ IsNamespaceCall(n2)
    /\ log[x].sub < log[n1].sub /\ log[n1].sub < log[n2].sub

\* C27: each completion of a module n calls every handler subscribed to
\* module:n with the instance and every handler subscribed to the namespace
\* module: with (n, instance), once for the completion, and no other handler;
\* the record's instance and initialized flag are set before, so getModule(n)
\* called inside such a handler returns the instance.  No handler is called
\* by any other step.
C27_CompletionIsAnnounced ==
  [][IF Len(completed') > Len(completed)
     THEN LET p == completed'[Len(completed')]
              r == procs[p].rec
              n == recs[r].name
              new(id) == {c \in (CallsOf(id))' : c > Len(log)}
          IN /\ recs'[r].initialized /\ recs'[r].module = r
             /\ \A id \in 1..Len(subs) :
                  IF Subscribed(id) /\ Delivers(subs[id].key, "module", n)
                  THEN /\ Cardinality(new(id)) = 1
                       /\ \A c \in new(id) :
                            /\ log'[c].mods[n] = r
                            /\ Len(log'[c].args) =
                                 (IF subs[id].key[2] = "" THEN 2 ELSE 1)
                            /\ log'[c].args[Len(log'[c].args)] = r
                            /\ subs[id].key[2] = "" => log'[c].args[1] = n
                  ELSE new(id) = {}
     ELSE \A id \in 1..Len(subs) : (CallsOf(id))' = CallsOf(id)]_vars

\* Two completions of A, each announced to a handler of module:A and to a
\* handler of the namespace.
C27_Witness ==
  \E a, n \in 1..Len(subs) :
    /\ subs[a].key = ModuleKey("A") /\ subs[n].key = <<"module", "">>
    /\ Cardinality(CallsOf(a)) = 2 /\ Cardinality(CallsOf(n)) = 2
    /\ \E c1, c2 \in CallsOf(a) : log[c1].args # log[c2].args

\* The record of the last register() call made for name n, 0 if none.
LatestFor(n) ==
  LET R == {r \in 1..Len(recs) : recs[r].name = n}
  IN IF R = {} THEN 0 ELSE CHOOSE r \in R : \A q \in R : q <= r

\* C28: register() for a name that is already registered overwrites the
\* record, and the overwrite persists: the registry holds, for every name,
\* the record of the last register() call for it, whatever initialize
\* completes later, and getModule(name) returns nothing but the instance of
\* that record.
C28_OverwritePersists ==
  \A n \in Names :
    /\ modules[n] = LatestFor(n)
    /\ GetModule(n) \in {0, LatestFor(n)}

\* The listener that call c subscribed for the i-th of its pending names is
\* among the listeners ls.
HoldsListener(ls, cs, c, i) ==
  ResolveListener(c, i) \in Range(ls[ModuleKey(cs[c].subscribed[i])])

\* C29: the resolver's initial check and its subscription are one
\* uninterrupted call: when the call that found names pending returns, each
\* of them has the call's listener subscribed, so no completion event can
\* fall between the check and the subscription.  The completion event of a
\* pending dependency then runs the listener, which re-checks the requested
\* names and invokes onReady when all of them are initialized.
C29_CheckAndSubscribeAreOneStep ==
  [][/\ \A c \in (Len(calls) + 1)..Len(calls') :
          /\ calls'[c].outcome \in {"ready", "waiting", "threw", "rejected"}
          /\ calls'[c].outcome = "waiting" =>
               /\ Range(calls'[c].subscribed) =
                    {d \in Range(calls'[c].names) : ~recs'[modules'[d]].initialized}
               /\ \A i \in 1..Len(calls'[c].subscribed) :
                    HoldsListener(listeners', calls', c, i)
     /\ Len(completed') > Len(completed) =>
          LET d == recs[procs[completed'[Len(completed')]].rec].name
          IN \A c \in 1..Len(calls) : \A i \in 1..Len(calls[c].subscribed) :
               (calls[c].subscribed[i] = d /\ HoldsListener(listeners, calls, c, i)) =>
                 /\ ~HoldsListener(listeners', calls', c, i)
                 /\ (\A j \in 1..Len(calls[c].names) :
                       /\ modules'[calls[c].names[j]] # 0
                       /\ recs'[modules'[calls[c].names[j]]].initialized)
                      => calls'[c].invoked >= 1]_vars

\* C29 as the specification words it: the check and the subscription are
\* not atomic, the call that has found a name pending is not subscribed yet
\* when other code gets to run, so that a completion can fall in between.
C29_SubscriptionComesLater ==
  [][\A c \in (Len(calls) + 1)..Len(calls') :
       calls'[c].outcome = "waiting" => (ListenersOf(c))' = {}]_vars

\* A call that found one name pending and was answered when it completed.
C29_Witness ==
  \E c \in 1..Len(calls) :
    /\ Len(calls[c].subscribed) = 1
    /\ calls[c].invoked = 1
    /\ ListenersOf(c) = {}

\* Call c was made by an initialize after its suspension on a timer: after
\* start() has dispatched every initialize and run its cycle check.
IsLateCall(rs, ps, cs, c) ==
  cs[c].owner # 0 /\ rs[ps[cs[c].owner].rec].moduleDefn.late

\* C30: a scoped dependency() call made after a suspension inside initialize
\* that closes a cycle is detected: the call fails with a cycle error, or a
\* pending start() rejects with one.
C30_LateCycleIsDetected ==
  [][\A c \in (Len(calls) + 1)..Len(calls') :
       (IsLateCall(recs', procs', calls', c) /\ CheckCyclic(graph) = <<>> /\ CheckCyclic(graph') # <<>>)
         => \/ calls'[c].err.kind = "cycle"
            \/ \E sid \in 1..Len(starts') :
                 /\ starts[sid].state = "pending"
                 /\ starts'[sid].state = "rejected"
                 /\ starts'[sid].err.kind = "cycle"]_vars

\* Vertex v of graph g lies on a cycle: v is reached again from v.
OnCycle(g, v) == v \in GraphReach(g, GraphSucc(g, {v}), Cardinality(VertexNames))

\* C31: a scoped dependency() call fails with a cycle error only if the call
\* itself is involved in a cycle: a call made by a module that lies on no
\* cycle, for names that lie on no cycle, does not fail with a cycle error,
\* whatever cycle an earlier call of another module has closed.
C31_CycleErrorOnlyForOwnEdges ==
  [][\A c \in (Len(calls) + 1)..Len(calls') :
       (calls'[c].owner # 0 /\ calls'[c].err.kind = "cycle") =>
         \/ OnCycle(graph', recs'[procs'[calls'[c].owner].rec].name)
         \/ \E i \in 1..Len(calls'[c].names) : OnCycle(graph', calls'[c].names[i])]_vars

\* C32: the promise of every start() call, a call made while an earlier
\* start() is in progress included, resolves only in a state where every
\* module that was registered when the first start() began is initialized.
C32_StartResolvesWhenAllInitialized ==
  [][\A sid \in 1..Len(starts') :
       (/\ starts'[sid].state = "resolved"
        /\ (sid > Len(starts) \/ starts[sid].state # "resolved")) =>
         \A i \in 1..Len(starts'[1].modInfos) :
           recs'[starts'[1].modInfos[i]].initialized]_vars

\* initialize of the record r has been invoked.
Invoked(r) == \E p \in 1..Len(procs) : procs[p].rec = r

\* C33: start() dispatches initialize for every module of its snapshot
\* whatever becomes of the earlier ones: a module of the snapshot whose
\* initialize has not been invoked yet has its reaction in the queue, behind
\* nothing but reactions, so once the queue has run dry every initialize was
\* invoked, also when an earlier module sleeps, failed or never completes.
C33_EveryInitializeDispatched ==
  \A sid \in 1..Len(starts) :
    ~starts[sid].noop =>
      \A i \in 1..Len(starts[sid].modInfos) :
        \/ Invoked(starts[sid].modInfos[i])
        \/ \E k \in 1..Len(mq) : mq[k] = Task("init", starts[sid].modInfos[i])

\* The queue has run dry and the second module of a snapshot is in flight
\* although the first one is still in flight too, or failed.
C33_Witness ==
  \E sid \in 1..Len(starts), p, q \in 1..Len(procs) :
    /\ Len(starts[sid].modInfos) >= 2 /\ mq = <<>>
    /\ procs[p].rec = starts[sid].modInfos[1]
    /\ procs[q].rec = starts[sid].modInfos[2]
    /\ procs[p].pc \in {"sleeping", "failed"}
    /\ procs[q].pc = "sleeping"

\* The traversal of t below the path whose vertices are P finds a repeat: a
\* vertex of P, or a vertex on a cycle, is reached from t.
FindsCycle(g, t, P) ==
  LET R == GraphReach(g, {t}, Cardinality(VertexNames))
  IN R \cap P # {} \/ \E v \in R : OnCycle(g, v)

\* The position of the edge to t among the edges of v.
EdgeIndex(g, v, t) == CHOOSE j \in 1..Len(g[v].edges) : g[v].edges[j] = t

\* The claim as worded: the recorded path is the suffix of the current path
\* from the first occurrence of the repeated vertex, so it begins and ends
\* with that vertex.
C34_RecordsCycleSuffix ==
  LET c == CheckCyclic(graph)
  IN c # <<>> => c[1] = c[Len(c)]

\* C34: when the cycle check finds a vertex already on the current
\* depth-first path, it records the whole current path, from the vertex the
\* traversal started at, followed by the repeated vertex: the recorded path
\* begins with the root, walks along edges through distinct vertices and ends
\* with a vertex that is already on it.  Exploration then stops and the
\* recorded path is not replaced: no edge that comes before an edge of the
\* recorded path, in the insertion order of its vertex, leads to a repeat.
C34_RecordsWholePathFirstCycleWins ==
  LET c == CheckCyclic(graph)
      n == Len(c)
  IN c # <<>> =>
       /\ n >= 2 /\ c[1] = Root
       /\ \A i, j \in 1..(n - 1) : i # j => c[i] # c[j]
       /\ \E k \in 1..(n - 1) : c[k] = c[n]
       /\ \A i \in 1..(n - 1) :
            /\ ContainsEdge(graph, c[i], c[i + 1])
            /\ \A j \in 1..Len(graph[c[i]].edges) :
                 j < EdgeIndex(graph, c[i], c[i + 1]) =>
                   ~FindsCycle(graph, graph[c[i]].edges[j], {c[k] : k \in 1..i})

\* The recorded path starts with a vertex that is not on the cycle, and a
\* second cycle, behind a later edge of the root, is not reported.
C34_Witness ==
  /\ graph[Root].edges = <<"A", "C">>
  /\ CheckCyclic(graph) = <<Root, "A", "B", "A">>
  /\ OnCycle(graph, "C")

\* Module m itself made a scoped dependency() call that names d.
MadeCall(cs, ps, rs, m, d) ==
  \E c \in 1..Len(cs) :
    /\ cs[c].owner # 0
    /\ rs[ps[cs[c].owner].rec].name = m
    /\ d \in Range(cs[c].names)

\* C35: every edge of the graph whose source is not the root is an edge
\* m -> d for which module m itself made a scoped dependency() call naming
\* d; and a dependency() call of a module that was registered from inside
\* another module's initialize leaves the recorded dependency names of that
\* other module as they were.
C35_EdgesBelongToTheCaller ==
  [][/\ \A m \in Names : \A d \in Range(graph'[m].edges) :
          MadeCall(calls', procs', recs', m, d)
     /\ \A c \in (Len(calls) + 1)..Len(calls') :
          calls'[c].owner # 0 =>
            \A i \in 1..Len(procs'[calls'[c].owner].ctx) :
              LET x == procs'[calls'[c].owner].ctx[i]
              IN x # recs'[procs'[calls'[c].owner].rec].name =>
                   recs'[modules'[x]].dependencies = recs[modules[x]].dependencies]_vars

\* C36: after close() no handler that was subscribed before the close, to
\* an exact key or to a namespace key, is called by a later emit.
C36_NoHandlerSurvivesClose ==
  \A c \in ClosesIn(log) : \A i \in 1..Len(log) :
    (i > c /\ log[i].type = "call") => subs[log[i].sub].at >= c

\* C37: a start() called when no module is registered settles: once
\* nothing is left to run (no reaction is queued and no timer is pending),
\* the promise it returned is resolved.
C37_EmptyStartSettles ==
  \A sid \in 1..Len(starts) :
    (~starts[sid].noop /\ starts[sid].modInfos = <<>> /\ Quiescent) =>
      starts[sid].state = "resolved"

\* C38: a dependency() call that waits for a registered, pending module is
\* woken by that module's completion, also when emit() was called on the
\* reserved key of the module before it completed: once every requested
\* name is initialized, the handler of the call has been invoked.
C38_WokenByCompletion ==
  \A c \in 1..Len(calls) :
    (calls[c].outcome = "waiting" /\ AllInitializedNow(calls[c].names)) =>
      calls[c].invoked >= 1

\* C39: a scoped dependency(names) call that fails because one of the names
\* is not registered leaves the orchestrator as it was before the call: no
\* edge from the calling module was added, and the dependency names recorded
\* for the calling module are unchanged.
C39_FailedCallLeavesNoTrace ==
  [][\A c \in (Len(calls) + 1)..Len(calls') :
       (calls'[c].owner # 0 /\ calls'[c].err.kind = "unregistered") =>
         LET m == recs'[procs'[calls'[c].owner].rec].name
             r == modules'[m]
             \* a record that register() made in this very step had no
             \* dependency names, and its vertex no edges, before the call
             fresh == r > Len(recs)
         IN /\ graph'[m].edges = (IF fresh THEN <<>> ELSE graph[m].edges)
            /\ recs'[r].dependencies =
                 (IF fresh THEN <<>> ELSE recs[r].dependencies)]_vars

\* C40: edges are never removed from the graph: an edge that was inserted is
\* present in every later state, whatever addV calls, registrations of an
\* already registered name and start() calls follow.
C40_EdgesAreNeverRemoved ==
  [][\A v \in VertexNames : Range(graph[v].edges) \subseteq Range(graph'[v].edges)]_vars

====
